---- MODULE Spec2Model ----
(***************************************************************************)
(* Model of the TRMNL e-ink display client (trmnl-python.py): panel        *)
(* startup, the update loop of process_image (directive fetch, parse,      *)
(* image download, grayscale/resize/threshold, bit packing, panel          *)
(* display, pacing sleeps) and the teardown of main's finally block.       *)
(***************************************************************************)
EXTENDS Integers, Sequences, FiniteSets, TLC

(* ------------------------------ bounds --------------------------------- *)
\* panel geometries explored: epd.width in 1..MaxWidth, epd.height in 1..MaxHeight
MaxWidth == 4
MaxHeight == 4
\* integer refresh_rate values the service sends: MinRefresh..MaxRefresh
MaxRefresh == 1
\* side of the largest downloaded image (the smaller ones are 1 x 1)
MaxRawSide == 2

(* ------------------------- program constants --------------------------- *)
\* time.sleep(60) of the three error handlers and the refresh_rate default
BACKOFF == 60
\* data.get("refresh_rate", 60)
DEFAULT_REFRESH == 60
\* threshold = 128
threshold == 128
\* 8-bit grayscale of convert('L'): intensities 0..255
MaxIntensity == 255
\* putpixel value of a white pixel of the 1-bit image
WHITE == 255
\* putpixel value of a black pixel of the 1-bit image
BLACK == 0
\* time.sleep(2) after the self-test pattern
TEST_PAUSE == 2
\* sys.exit(1)
EXIT_FAILURE == 1

MinRefresh == 0 - 1

(* ------------------------------ values --------------------------------- *)
Max(a, b) == IF a >= b THEN a ELSE b

Pow2(k) == CASE k = 0 -> 1 [] k = 1 -> 2 [] k = 2 -> 4 [] k = 3 -> 8
             [] k = 4 -> 16 [] k = 5 -> 32 [] k = 6 -> 64 [] k = 7 -> 128

\* bit k of byte b
Bit(b, k) == (b \div Pow2(k)) % 2

\* buffer[byte_pos] |= (1 << bit_offset)
OrBit(b, k) == IF Bit(b, k) = 1 THEN b ELSE b + Pow2(k)

\* buffer[byte_pos] &= ~(1 << bit_offset)
AndNotBit(b, k) == IF Bit(b, k) = 1 THEN b - Pow2(k) ELSE b

\* bytearray(n): n zero bytes
ByteArray(n) == [i \in 1..n |-> 0]

(* refresh_rate as the JSON body carries it: absent, an integer, or a value
   that is not a number (a string or null) *)
RefreshAbsent == [kind |-> "absent", val |-> 0]
RefreshInt(n) == [kind |-> "int", val |-> n]
RefreshNonNumber == [kind |-> "str", val |-> 0]

RefreshInts == MinRefresh..MaxRefresh

RefreshValues == {RefreshAbsent, RefreshNonNumber} \cup {RefreshInt(n) : n \in RefreshInts}

DEFAULT_FILENAME == "display.jpg"

\* filenames the service sends: a plain name, and one with a directory part
GivenFilenames == {"image.png", "sub/image.png"}

\* open(file_path, 'wb') in the fresh temporary directory: the directory of
\* file_path must exist
WriteFails(name) == name = "sub/image.png"

NoResponse == [shape |-> "none", image_url |-> "absent", filename |-> "absent",
               refresh_rate |-> RefreshAbsent]

\* bodies of the directive response: not JSON, JSON that is no object (an
\* array, a string, a number, null), or an object with optional fields
Responses ==
    {[shape |-> s, image_url |-> "absent", filename |-> "absent",
      refresh_rate |-> RefreshAbsent] : s \in {"invalid", "nonobject"}}
    \cup [shape : {"object"}, image_url : {"absent", "url"},
          filename : {"absent"} \cup GivenFilenames, refresh_rate : RefreshValues]

(* ------------------------------ images --------------------------------- *)
Intensities == 0..MaxIntensity

\* intensities at the threshold boundary, used for the larger images
BoundaryIntensities == {threshold - 1, threshold}

NoRaw == [valid |-> FALSE, w |-> 0, h |-> 0, px |-> <<>>]

\* downloaded content: undecodable bytes, a 1 x 1 image of any intensity, or
\* a MaxRawSide x 1 image of boundary intensities
RawImages ==
    {[valid |-> TRUE, w |-> 1, h |-> 1, px |-> <<v>>] : v \in Intensities}
    \cup {[valid |-> TRUE, w |-> MaxRawSide, h |-> 1, px |-> p] :
            p \in [1..MaxRawSide -> BoundaryIntensities]}

Contents == {NoRaw} \cup RawImages

\* img.resize((w, h), Image.NEAREST): the source pixel under the centre of
\* each target pixel
Resize(raw, w, h) ==
    [i \in 1..(w * h) |->
        LET x == (i - 1) % w
            y == (i - 1) \div w
            sx == ((2 * x + 1) * raw.w) \div (2 * w)
            sy == ((2 * y + 1) * raw.h) \div (2 * h)
        IN raw.px[sy * raw.w + sx + 1]]

\* variant of MonoPixel: dark mode does not invert the mapping
MonoPixel_NoInvert(pixel, dark) ==
    IF pixel < threshold THEN BLACK ELSE WHITE

\* variant of MonoPixel: the comparison with the threshold is not strict
MonoPixel_NonStrict(pixel, dark) ==
    IF dark
    THEN (IF pixel <= threshold THEN WHITE ELSE BLACK)
    ELSE (IF pixel <= threshold THEN BLACK ELSE WHITE)

\* the value put into mono_img for one grayscale pixel
MonoPixel(pixel, dark) ==
    IF dark
    THEN (IF pixel < threshold THEN WHITE ELSE BLACK)
    ELSE (IF pixel < threshold THEN BLACK ELSE WHITE)

\* the threshold loop over all pixels
Threshold(gray, dark) == [i \in 1..Len(gray) |-> MonoPixel(gray[i], dark)]

\* variant of bit_offset: least significant bit first
bit_offset_LsbFirst(bit_pos) == bit_pos % 8

bit_offset(bit_pos) == 7 - (bit_pos % 8)

byte_pos(bit_pos) == bit_pos \div 8

\* one pass of the inner packing loop body for pixel bit_pos
PackPixel(buf, mono, bit_pos) ==
    IF mono[bit_pos + 1] = 0
    THEN [buf EXCEPT ![byte_pos(bit_pos) + 1] = AndNotBit(@, bit_offset(bit_pos))]
    ELSE [buf EXCEPT ![byte_pos(bit_pos) + 1] = OrBit(@, bit_offset(bit_pos))]

\* the packing loops from pixel bit_pos on; ok = FALSE is the IndexError of
\* a write past the end of the bytearray
RECURSIVE PackFrom(_, _, _)
PackFrom(buf, mono, bit_pos) ==
    IF bit_pos = Len(mono) THEN [ok |-> TRUE, buf |-> buf]
    ELSE IF byte_pos(bit_pos) >= Len(buf) THEN [ok |-> FALSE, buf |-> buf]
    ELSE PackFrom(PackPixel(buf, mono, bit_pos), mono, bit_pos + 1)

BufferLen(w, h) == (w * h) \div 8

Pack(mono, w, h) == PackFrom(ByteArray(BufferLen(w, h)), mono, 0)

\* variant of TestPattern: the white half comes first
TestPattern_Swapped(w, h) ==
    LET n == BufferLen(w, h)
    IN [i \in 1..n |-> IF i - 1 < n \div 2 THEN 255 ELSE 0]

\* the half black, half white pattern of test_display
TestPattern(w, h) ==
    LET n == BufferLen(w, h)
    IN [i \in 1..n |-> IF i - 1 < n \div 2 THEN 0 ELSE 255]

(* ------------------------------- state --------------------------------- *)
VARIABLES
    pc,             \* position of the single thread of control
    width, height,  \* epd.width, epd.height
    dark_mode,      \* args.dark_mode
    panel,          \* what the panel shows: the last completed Clear/display
    response,       \* body of the directive response of this iteration
    image_url, filename, refresh_rate,  \* locals of process_image after parsing
    raw,            \* content written to file_path
    img,            \* resized grayscale image
    mono_img,       \* 1-bit image
    buffer,         \* packed bytearray
    err,            \* the error raised in this iteration ("none" if none)
    slept,          \* time slept since the last directive request was issued
    sleeps,         \* time.sleep calls since the last directive request
    directiveReqs,  \* directive requests issued by the running call of process_image
    downloadReqs,   \* image requests issued in this iteration
    displayCalls,   \* epd.display calls issued in this iteration
    displayed,      \* an epd.display call of this iteration returned
    clears,         \* epd.Clear calls issued
    selftests,      \* self-test epd.display calls issued
    loopStarted,    \* process_image was entered at least once
    exitCause,      \* why the process left main ("none" while it runs)
    exitStatus,     \* <<status>> once the process ended with an exit status
    panelAsleep,    \* epd.sleep() returned
    released        \* epd.epdconfig.module_exit() returned

config == <<width, height, dark_mode>>
directive == <<response, image_url, filename, refresh_rate>>
pixels == <<raw, img, mono_img, buffer>>
iteration == <<err, slept, sleeps, directiveReqs, downloadReqs, displayCalls, displayed>>
startup == <<clears, selftests, loopStarted>>
ending == <<exitCause, exitStatus, panelAsleep, released>>
vars == <<pc, config, panel, directive, pixels, iteration, startup, ending>>

PanelOff == [content |-> "off", buf |-> <<>>]
PanelBlank == [content |-> "blank", buf |-> <<>>]
PanelShows(b) == [content |-> "buffer", buf |-> b]

\* errors of requests.get / raise_for_status, all requests.RequestException
RequestErrors == {"Timeout", "ConnectionError", "HTTPError"}

\* the locals holding pixel data are gone (function returned or unwound)
DropPixels ==
    /\ raw' = NoRaw
    /\ img' = <<>>
    /\ mono_img' = <<>>
    /\ buffer' = <<>>

Init ==
    /\ pc = "init"
    /\ width \in 1..MaxWidth
    /\ height \in 1..MaxHeight
    /\ dark_mode \in BOOLEAN
    /\ panel = PanelOff
    /\ response = NoResponse
    /\ image_url = "none"
    /\ filename = "none"
    /\ refresh_rate = RefreshAbsent
    /\ raw = NoRaw
    /\ img = <<>>
    /\ mono_img = <<>>
    /\ buffer = <<>>
    /\ err = "none"
    /\ slept = 0
    /\ sleeps = 0
    /\ directiveReqs = 0
    /\ downloadReqs = 0
    /\ displayCalls = 0
    /\ displayed = FALSE
    /\ clears = 0
    /\ selftests = 0
    /\ loopStarted = FALSE
    /\ exitCause = "none"
    /\ exitStatus = <<>>
    /\ panelAsleep = FALSE
    /\ released = FALSE

(* ------------------------------ startup -------------------------------- *)
\* variant of init_display: the handler logs the failure and does not exit
init_display_NoExit ==
    /\ pc = "init"
    /\ pc' = "clear"
    /\ \/ UNCHANGED ending
       \/ /\ exitCause' = "init_failed"
          /\ UNCHANGED <<exitStatus, panelAsleep, released>>
    /\ UNCHANGED <<config, panel, directive, pixels, iteration, startup>>

\* init_display: EPD() and epd.init(); any exception is logged and sys.exit(1)
\* leaves the process before main's try block is entered
init_display ==
    /\ pc = "init"
    /\ \/ /\ pc' = "clear"
          /\ UNCHANGED ending
       \/ /\ pc' = "exited"
          /\ exitCause' = "init_failed"
          /\ exitStatus' = <<EXIT_FAILURE>>
          /\ UNCHANGED <<panelAsleep, released>>
    /\ UNCHANGED <<config, panel, directive, pixels, iteration, startup>>

\* an exception leaving main's try block: the finally block runs next
Unwind(cause) ==
    /\ pc' = "teardown"
    /\ exitCause' = cause
    /\ UNCHANGED <<exitStatus, panelAsleep, released>>
    /\ DropPixels

\* clear_display: epd.Clear()
clear_display ==
    /\ pc = "clear"
    /\ clears' = clears + 1
    /\ \/ /\ panel' = PanelBlank
          /\ pc' = "selftest"
          /\ UNCHANGED <<pixels, ending>>
       \/ /\ Unwind("startup_error")
          /\ UNCHANGED panel
    /\ UNCHANGED <<config, directive, iteration, selftests, loopStarted>>

\* test_display: build the pattern, epd.display(buffer), time.sleep(2)
test_display ==
    /\ pc = "selftest"
    /\ selftests' = selftests + 1
    /\ \/ /\ panel' = PanelShows(TestPattern(width, height))
          /\ slept' = slept + TEST_PAUSE
          /\ sleeps' = sleeps + 1
          /\ pc' = "idle"
          /\ UNCHANGED <<pixels, ending>>
       \/ /\ Unwind("startup_error")
          /\ UNCHANGED <<panel, slept, sleeps>>
    /\ UNCHANGED <<config, directive, err, directiveReqs, downloadReqs,
                   displayCalls, displayed, clears, loopStarted>>

(* ----------------------------- update loop ------------------------------ *)
\* an except clause of process_image that logs the error; its time.sleep(60)
\* and return are the step Backoff (the handler reads no pixel data)
Caught(e) ==
    /\ err' = e
    /\ pc' = "backoff"
    /\ DropPixels
    /\ UNCHANGED ending

\* an exception no except clause of process_image matches: it leaves
\* process_image and the while loop of main
Escapes(e) ==
    /\ err' = e
    /\ Unwind("stage_error")

\* variant of Backoff: the handlers return without sleeping
Backoff_NoSleep ==
    /\ pc = "backoff"
    /\ pc' = "idle"
    /\ directiveReqs' = 0
    /\ DropPixels
    /\ UNCHANGED <<config, panel, directive, err, slept, sleeps, downloadReqs,
                   displayCalls, displayed, startup, ending>>

\* variant of Backoff: the handlers sleep the directive's refresh interval
\* once a directive was parsed
Backoff_Refresh ==
    /\ pc = "backoff"
    /\ slept' = slept + (IF refresh_rate.kind = "int"
                         THEN Max(refresh_rate.val, 1) ELSE BACKOFF)
    /\ sleeps' = sleeps + 1
    /\ pc' = "idle"
    /\ directiveReqs' = 0
    /\ DropPixels
    /\ UNCHANGED <<config, panel, directive, err, downloadReqs,
                   displayCalls, displayed, startup, ending>>

\* variant of Backoff: after the sleep the startup clear and self-test run again
Backoff_Reclear ==
    /\ pc = "backoff"
    /\ slept' = slept + BACKOFF
    /\ sleeps' = sleeps + 1
    /\ pc' = "clear"
    /\ directiveReqs' = 0
    /\ DropPixels
    /\ UNCHANGED <<config, panel, directive, err, downloadReqs,
                   displayCalls, displayed, startup, ending>>

\* time.sleep(60); return  (the three narrow handlers and the broad one)
Backoff ==
    /\ pc = "backoff"
    /\ slept' = slept + BACKOFF
    /\ sleeps' = sleeps + 1
    /\ pc' = "idle"
    /\ directiveReqs' = 0
    /\ DropPixels
    /\ UNCHANGED <<config, panel, directive, err, downloadReqs,
                   displayCalls, displayed, startup, ending>>

\* variant of FetchDirective: a failed request is issued again at once
FetchDirective_Retry ==
    /\ pc = "idle"
    /\ loopStarted' = TRUE
    /\ directiveReqs' = directiveReqs + 1
    /\ downloadReqs' = 0
    /\ displayCalls' = 0
    /\ displayed' = FALSE
    /\ slept' = 0
    /\ sleeps' = 0
    /\ image_url' = "none"
    /\ filename' = "none"
    /\ refresh_rate' = RefreshAbsent
    /\ \/ \E body \in Responses :
            /\ response' = body
            /\ err' = "none"
            /\ pc' = "parse"
            /\ UNCHANGED <<pixels, ending>>
       \/ \E e \in RequestErrors :
            /\ response' = NoResponse
            /\ err' = e
            /\ pc' = "idle"
            /\ UNCHANGED <<pixels, ending>>
    /\ UNCHANGED <<config, panel, clears, selftests>>

\* process_image entered from `while True`: requests.get of the directive with
\* timeout=30 and raise_for_status()
FetchDirective ==
    /\ pc = "idle"
    /\ loopStarted' = TRUE
    /\ directiveReqs' = directiveReqs + 1
    /\ downloadReqs' = 0
    /\ displayCalls' = 0
    /\ displayed' = FALSE
    /\ slept' = 0
    /\ sleeps' = 0
    /\ image_url' = "none"
    /\ filename' = "none"
    /\ refresh_rate' = RefreshAbsent
    /\ \/ \E body \in Responses :
            /\ response' = body
            /\ err' = "none"
            /\ pc' = "parse"
            /\ UNCHANGED <<pixels, ending>>
       \/ \E e \in RequestErrors :
            /\ response' = NoResponse
            /\ Caught(e)
    /\ UNCHANGED <<config, panel, clears, selftests>>

\* variant of ParseDirective: the optional fields of the body are not read
ParseDirective_DefaultsOnly ==
    /\ pc = "parse"
    /\ \/ /\ response.shape = "invalid"
          /\ Caught("JSONDecodeError")
          /\ UNCHANGED <<image_url, filename, refresh_rate>>
       \/ /\ response.shape = "nonobject"
          /\ Escapes("TypeError")
          /\ UNCHANGED <<image_url, filename, refresh_rate>>
       \/ /\ response.shape = "object"
          /\ response.image_url = "absent"
          /\ Caught("KeyError")
          /\ UNCHANGED <<image_url, filename, refresh_rate>>
       \/ /\ response.shape = "object"
          /\ response.image_url # "absent"
          /\ image_url' = response.image_url
          /\ filename' = DEFAULT_FILENAME
          /\ refresh_rate' = RefreshInt(DEFAULT_REFRESH)
          /\ pc' = "download"
          /\ UNCHANGED <<pixels, err, ending>>
    /\ UNCHANGED <<config, panel, response, slept, sleeps, directiveReqs,
                   downloadReqs, displayCalls, displayed, startup>>

\* response.json(), data["image_url"], data.get(...) with their defaults;
\* only json.JSONDecodeError and KeyError are handled
ParseDirective ==
    /\ pc = "parse"
    /\ \/ /\ response.shape = "invalid"
          /\ Caught("JSONDecodeError")
          /\ UNCHANGED <<image_url, filename, refresh_rate>>
       \/ /\ response.shape = "nonobject"
          /\ Escapes("TypeError")
          /\ UNCHANGED <<image_url, filename, refresh_rate>>
       \/ /\ response.shape = "object"
          /\ response.image_url = "absent"
          /\ Caught("KeyError")
          /\ UNCHANGED <<image_url, filename, refresh_rate>>
       \/ /\ response.shape = "object"
          /\ response.image_url # "absent"
          /\ image_url' = response.image_url
          /\ filename' = IF response.filename = "absent"
                         THEN DEFAULT_FILENAME ELSE response.filename
          /\ refresh_rate' = IF response.refresh_rate.kind = "absent"
                             THEN RefreshInt(DEFAULT_REFRESH)
                             ELSE response.refresh_rate
          /\ pc' = "download"
          /\ UNCHANGED <<pixels, err, ending>>
    /\ UNCHANGED <<config, panel, response, slept, sleeps, directiveReqs,
                   downloadReqs, displayCalls, displayed, startup>>

\* requests.get(image_url, timeout=30), raise_for_status(), then the write of
\* the content to file_path; only requests.RequestException is handled
DownloadImage ==
    /\ pc = "download"
    /\ downloadReqs' = downloadReqs + 1
    /\ \/ \E e \in RequestErrors : Caught(e)
       \/ /\ WriteFails(filename)
          /\ Escapes("OSError")
       \/ /\ ~WriteFails(filename)
          /\ \E content \in Contents :
                /\ raw' = content
                /\ pc' = "normalize"
                /\ UNCHANGED <<img, mono_img, buffer, err, ending>>
    /\ UNCHANGED <<config, panel, directive, slept, sleeps, directiveReqs,
                   displayCalls, displayed, startup>>

\* Image.open().convert('L'), resize, the threshold loop and
\* mono_img.save("debug_buffer.png"), inside the broad try
NormalizeImage ==
    /\ pc = "normalize"
    /\ \/ /\ ~raw.valid
          /\ Caught("DecodeError")
       \/ /\ raw.valid
          /\ img' = Resize(raw, width, height)
          /\ mono_img' = Threshold(Resize(raw, width, height), dark_mode)
          /\ pc' = "pack"
          /\ UNCHANGED <<raw, buffer, err, ending>>
       \/ /\ raw.valid
          /\ Caught("SaveError")
    /\ UNCHANGED <<config, panel, directive, slept, sleeps, directiveReqs,
                   downloadReqs, displayCalls, displayed, startup>>

\* variant of PackBuffer: a write past the end of the buffer is ignored
PackBuffer_IgnoreOverflow ==
    /\ pc = "pack"
    /\ LET packed == Pack(mono_img, width, height)
       IN \/ /\ packed.ok
             /\ buffer' = packed.buf
             /\ pc' = "display"
             /\ UNCHANGED <<raw, img, mono_img, err, ending>>
          \/ /\ ~packed.ok
             /\ buffer' = packed.buf
             /\ pc' = "display"
             /\ UNCHANGED <<raw, img, mono_img, err, ending>>
    /\ UNCHANGED <<config, panel, directive, slept, sleeps,
                   directiveReqs, downloadReqs, displayCalls, displayed, startup>>

\* buffer = bytearray(width * height // 8) and the packing loops
PackBuffer ==
    /\ pc = "pack"
    /\ LET packed == Pack(mono_img, width, height)
       IN \/ /\ packed.ok
             /\ buffer' = packed.buf
             /\ pc' = "display"
             /\ UNCHANGED <<raw, img, mono_img, err, ending>>
          \/ /\ ~packed.ok
             /\ Caught("IndexError")
    /\ UNCHANGED <<config, panel, directive, slept, sleeps,
                   directiveReqs, downloadReqs, displayCalls, displayed, startup>>

\* epd.display(buffer)
DisplayBuffer ==
    /\ pc = "display"
    /\ displayCalls' = displayCalls + 1
    /\ \/ /\ panel' = PanelShows(buffer)
          /\ displayed' = TRUE
          /\ pc' = "pace"
          /\ UNCHANGED <<pixels, err, ending>>
       \/ /\ Caught("DisplayError")
          /\ UNCHANGED <<panel, displayed>>
    /\ UNCHANGED <<config, directive, slept, sleeps, directiveReqs,
                   downloadReqs, startup>>

\* variant of Pace: the refresh interval is clamped at 0, not at 1
Pace_NoClamp ==
    /\ pc = "pace"
    /\ \/ /\ refresh_rate.kind = "int"
          /\ slept' = slept + Max(refresh_rate.val, 0)
          /\ sleeps' = sleeps + 1
          /\ pc' = "idle"
          /\ directiveReqs' = 0
          /\ DropPixels
          /\ UNCHANGED <<err, ending>>
       \/ /\ refresh_rate.kind # "int"
          /\ Caught("TypeError")
          /\ UNCHANGED <<slept, sleeps, directiveReqs>>
    /\ UNCHANGED <<config, panel, directive, downloadReqs,
                   displayCalls, displayed, startup>>

\* time.sleep(max(refresh_rate, 1)), still inside the broad try: max() of a
\* value that is not a number raises TypeError
Pace ==
    /\ pc = "pace"
    /\ \/ /\ refresh_rate.kind = "int"
          /\ slept' = slept + Max(refresh_rate.val, 1)
          /\ sleeps' = sleeps + 1
          /\ pc' = "idle"
          /\ directiveReqs' = 0
          /\ DropPixels
          /\ UNCHANGED <<err, ending>>
       \/ /\ refresh_rate.kind # "int"
          /\ Caught("TypeError")
          /\ UNCHANGED <<slept, sleeps, directiveReqs>>
    /\ UNCHANGED <<config, panel, directive, downloadReqs,
                   displayCalls, displayed, startup>>

(* ------------------------- interrupt and teardown ----------------------- *)
InTryBlock ==
    pc \in {"clear", "selftest", "idle", "parse", "download", "normalize",
            "pack", "display", "pace", "backoff"}

\* KeyboardInterrupt while main is inside its try block: no except clause
\* of process_image matches it (it is no Exception)
Interrupt ==
    /\ InTryBlock
    /\ Unwind("interrupt")
    /\ UNCHANGED <<config, panel, directive, iteration, startup>>

\* finally: epd.sleep(); an exception here skips the rest of the block
PanelSleep ==
    /\ pc = "teardown"
    /\ \/ /\ panelAsleep' = TRUE
          /\ pc' = "release"
          /\ UNCHANGED exitStatus
       \/ /\ pc' = "exited"
          /\ exitStatus' = <<EXIT_FAILURE>>
          /\ UNCHANGED panelAsleep
    /\ UNCHANGED <<config, panel, directive, pixels, iteration, startup,
                   exitCause, released>>

\* finally: epd.epdconfig.module_exit(); then the pending exception ends
\* the process
ModuleExit ==
    /\ pc = "release"
    /\ \/ released' = TRUE
       \/ UNCHANGED released
    /\ pc' = "exited"
    /\ exitStatus' = <<EXIT_FAILURE>>
    /\ UNCHANGED <<config, panel, directive, pixels, iteration, startup,
                   exitCause, panelAsleep>>

Next ==
    \/ init_display
    \/ clear_display
    \/ test_display
    \/ FetchDirective
    \/ ParseDirective
    \/ DownloadImage
    \/ NormalizeImage
    \/ PackBuffer
    \/ DisplayBuffer
    \/ Pace
    \/ Backoff
    \/ Interrupt
    \/ PanelSleep
    \/ ModuleExit

Spec == Init /\ [][Next]_vars

\* the steps of a run that no external signal interrupts
NextRunning ==
    \/ init_display
    \/ clear_display
    \/ test_display
    \/ FetchDirective
    \/ ParseDirective
    \/ DownloadImage
    \/ NormalizeImage
    \/ PackBuffer
    \/ DisplayBuffer
    \/ Pace
    \/ Backoff
    \/ PanelSleep
    \/ ModuleExit

\* no interrupt arrives, and every blocking call (request, panel I/O, sleep)
\* eventually returns or fails: the single thread always takes its next step
LiveSpec == Init /\ [][NextRunning]_vars /\ WF_vars(NextRunning)

(* ============================== claims ================================== *)
\* the step that issues the next directive request
FetchStep == pc = "idle" /\ pc' \in {"parse", "backoff"}

\* failures of the directive fetch, of its parsing, and of the image download
FetchFailures == RequestErrors \cup {"JSONDecodeError", "KeyError"}

\* failures of decoding/resampling/thresholding (and the debug save between
\* them and packing), of packing, and of the panel display call
RenderFailures == {"DecodeError", "SaveError", "IndexError", "DisplayError"}

CeilDiv(a, b) == (a + b - 1) \div b

PixelIndexes == 0..(width * height - 1)

\* the bit of pixel i in buf, MSB first
PixelBit(buf, i) == Bit(buf[(i \div 8) + 1], 7 - (i % 8))

\* the 1-bit image a packed buffer encodes: bit 0 is black, bit 1 is white
Unpack(buf, n) == [i \in 1..n |-> IF PixelBit(buf, i - 1) = 0 THEN BLACK ELSE WHITE]

\* the complement of a 1-bit image
Complement(mono) == [i \in 1..Len(mono) |-> IF mono[i] = BLACK THEN WHITE ELSE BLACK]

\* the pixel bits of a packed buffer, in pixel order
PackedBits(buf) == [i \in 1..(width * height) |-> PixelBit(buf, i - 1)]

FlipBits(bits) == [i \in 1..Len(bits) |-> 1 - bits[i]]

(* C1: once the update loop has started, no error of a pipeline stage ends
   the process: the process is running, or was stopped by an interrupt. *)
C1_NoStageErrorEscapes ==
    loopStarted => exitCause \in {"none", "interrupt"}

(* C2: after a failed directive fetch, a failed parse or a failed image
   download, the iteration has issued no panel display, the process goes on,
   and when the next directive request is issued exactly one sleep of 60 time
   units has passed since the failed iteration's request. *)
C2_FetchFailureBackoff ==
    /\ [](err \in FetchFailures =>
            /\ displayCalls = 0
            /\ ~displayed
            /\ exitCause \in {"none", "interrupt"})
    /\ [][(FetchStep /\ err \in FetchFailures) =>
            (slept = BACKOFF /\ sleeps = 1)]_vars

C2_Witness ==
    /\ pc = "idle"
    /\ err = "Timeout"
    /\ downloadReqs = 0
    /\ slept = BACKOFF

(* C3: after a failure of decoding, resampling, thresholding, packing or the
   panel display call, the next directive request is issued only after one
   sleep of 60 time units, whatever refresh interval the directive gave. *)
C3_RenderFailureBackoff ==
    [][(FetchStep /\ err \in RenderFailures) =>
            (slept = BACKOFF /\ sleeps = 1)]_vars

C3_Witness ==
    /\ pc = "idle"
    /\ err = "DisplayError"
    /\ refresh_rate = RefreshInt(1)
    /\ slept = BACKOFF

(* C4: when an iteration with a successful panel display has returned, the
   loop has slept exactly max(refresh_rate, 1) time units, refresh_rate being
   the integer of the directive of that iteration (60 when absent). *)
C4_RefreshPacing ==
    (pc = "idle" /\ displayed) =>
        /\ refresh_rate.kind = "int"
        /\ sleeps = 1
        /\ slept = Max(refresh_rate.val, 1)

(* C5: whenever the process has ended after the panel was initialized, the
   panel was put to sleep and its low-level resources were released. *)
C5_TeardownCompletes ==
    (pc = "exited" /\ exitCause # "init_failed") => (panelAsleep /\ released)

(* C6: after a failed panel initialization the process has ended with a
   failure status and no panel clear, self-test, directive request or display
   call was ever issued. *)
C6_InitFailureIsFatal ==
    exitCause = "init_failed" =>
        /\ pc = "exited"
        /\ exitStatus = <<EXIT_FAILURE>>
        /\ clears = 0
        /\ selftests = 0
        /\ ~loopStarted
        /\ directiveReqs = 0
        /\ downloadReqs = 0
        /\ displayCalls = 0
        /\ panel = PanelOff

C6_Witness == exitCause = "init_failed" /\ pc = "exited"

(* C7: for every panel geometry packing never fails, and the buffer handed
   to the panel display call has length ceil(width * height / 8). *)
C7_PackedLength ==
    /\ err # "IndexError"
    /\ pc = "display" => Len(buffer) = CeilDiv(width * height, 8)

(* C8: in the packed buffer handed to the panel, the bit 7 - (i mod 8) of byte
   floor(i / 8) is 0 exactly when pixel i of the 1-bit image is black and 1
   exactly when it is white, so unpacking the buffer gives the image back. *)
C8_BitLayout ==
    pc \in {"display", "pace"} =>
        /\ \A i \in PixelIndexes :
              /\ (PixelBit(buffer, i) = 0) <=> (mono_img[i + 1] = BLACK)
              /\ (PixelBit(buffer, i) = 1) <=> (mono_img[i + 1] = WHITE)
        /\ Unpack(buffer, width * height) = mono_img

C8_Witness ==
    /\ pc = "display"
    /\ Len(buffer) = 2
    /\ \E i, j \in 1..Len(mono_img) : mono_img[i] = BLACK /\ mono_img[j] = WHITE

(* C9: every pixel of the 1-bit image produced in one mode is the complement
   of the pixel the other mode produces from the same grayscale image, and so
   is every pixel bit of the packed buffer. *)
C9_PolaritySymmetry ==
    /\ pc \in {"pack", "display", "pace"} =>
          mono_img = Complement(Threshold(img, ~dark_mode))
    /\ pc \in {"display", "pace"} =>
          PackedBits(buffer) =
            FlipBits(PackedBits(Pack(Threshold(img, ~dark_mode), width, height).buf))

C9_Witness ==
    /\ pc = "display"
    /\ dark_mode
    /\ \E i, j \in 1..Len(img) : img[i] = threshold /\ img[j] = threshold - 1

(* C10: with dark mode off, every pixel of intensity below 128 becomes black
   (packed bit 0) and every pixel of intensity 128 or more becomes white
   (packed bit 1). *)
C10_ThresholdBoundary ==
    (~dark_mode /\ pc \in {"pack", "display", "pace"}) =>
        \A i \in PixelIndexes :
           /\ img[i + 1] < 128 =>
                /\ mono_img[i + 1] = BLACK
                /\ pc # "pack" => PixelBit(buffer, i) = 0
           /\ img[i + 1] >= 128 =>
                /\ mono_img[i + 1] = WHITE
                /\ pc # "pack" => PixelBit(buffer, i) = 1

C10_Witness ==
    /\ pc = "pace"
    /\ ~dark_mode
    /\ \E i, j \in 1..Len(img) : img[i] = 128 /\ img[j] = 127

(* C11: a directive body that is an object with image_url is accepted: the
   parse step goes on to the download with filename "display.jpg" when the
   body has no filename and refresh_rate 60 when it has no refresh_rate, and
   with the body's own value for each field that is present. *)
C11_DirectiveDefaults ==
    [][(/\ pc = "parse"
        /\ response.shape = "object"
        /\ response.image_url = "url"
        /\ exitCause' = "none") =>
            /\ pc' = "download"
            /\ image_url' = "url"
            /\ response.filename = "absent" => filename' = "display.jpg"
            /\ response.filename # "absent" => filename' = response.filename
            /\ response.refresh_rate.kind = "absent" => refresh_rate' = RefreshInt(60)
            /\ response.refresh_rate.kind # "absent" =>
                    refresh_rate' = response.refresh_rate]_vars

C11_Witness ==
    /\ pc = "download"
    /\ response.filename = "absent"
    /\ response.refresh_rate.kind = "absent"
    /\ filename = "display.jpg"
    /\ refresh_rate = RefreshInt(60)

\* the response was received and its body has no image_url: it is not JSON,
\* it is JSON but no object, or it is an object without the field
LacksImageUrl == response.shape # "none" /\ response.image_url = "absent"

(* C12: a directive response without image_url, or that is not parseable, is
   rejected: no image request and no display call are issued, no field of it
   is used, the process goes on, and the iteration returns after exactly one
   sleep of 60 time units. *)
C12_MalformedRejected ==
    LacksImageUrl =>
        /\ downloadReqs = 0
        /\ displayCalls = 0
        /\ image_url = "none" /\ filename = "none" /\ refresh_rate = RefreshAbsent
        /\ exitCause \in {"none", "interrupt"}
        /\ pc = "idle" => (sleeps = 1 /\ slept = BACKOFF)

(* C13: a directive whose refresh_rate is present but is not an integer is
   rejected as a unit: no image request and no display call are issued. *)
C13_InvalidRefreshRejected ==
    response.refresh_rate.kind = "str" => (downloadReqs = 0 /\ displayCalls = 0)

(* C14: the panel is cleared once and the self-test pattern is rendered once,
   the self-test after the completed clear, both before the first directive
   request; neither is issued again once the loop has started. *)
C14_StartupOnce ==
    /\ [](/\ clears <= 1
          /\ selftests <= 1
          /\ selftests = 1 => clears = 1
          /\ loopStarted => (clears = 1 /\ selftests = 1))
    /\ [][clears' # clears =>
            (pc = "clear" /\ selftests = 0 /\ ~loopStarted)]_vars
    /\ [][selftests' # selftests =>
            (pc = "selftest" /\ panel = PanelBlank /\ ~loopStarted)]_vars

C14_Witness ==
    /\ pc = "idle"
    /\ loopStarted
    /\ displayed
    /\ clears = 1
    /\ selftests = 1

(* C16: in one call of process_image at most one directive request and at
   most one image request are issued, and the image request is issued only
   for a directive that was received and parsed with its image_url. *)
C16_NoRetry ==
    /\ directiveReqs <= 1
    /\ downloadReqs <= 1
    /\ downloadReqs = 1 =>
          /\ response.shape = "object"
          /\ response.image_url = "url"
          /\ image_url = "url"
          /\ pc \notin {"idle", "teardown", "release", "exited"} => directiveReqs = 1

C16_Witness ==
    /\ pc = "normalize"
    /\ directiveReqs = 1
    /\ downloadReqs = 1

\* failures of the stages fetch, parse, download and write, normalize, pack, display
StageFailures == FetchFailures \cup RenderFailures \cup {"OSError"}

(* C17: the panel display call is issued at most once per iteration, only
   after the directive request, the image request, the decoding and
   thresholding and the complete packing of that iteration succeeded, and with
   the buffer packed from that iteration's image; the panel content changes
   only by that call, and an iteration in which a stage fails never changes
   it. *)
C17_StageOrder ==
    /\ [](/\ displayCalls <= 1
          /\ err \in StageFailures => ~displayed
          /\ exitCause = "stage_error" => ~displayed)
    /\ [][displayCalls' > displayCalls =>
            /\ pc = "display"
            /\ displayCalls = 0
            /\ err = "none"
            /\ directiveReqs = 1
            /\ downloadReqs = 1
            /\ raw.valid
            /\ img = Resize(raw, width, height)
            /\ mono_img = Threshold(img, dark_mode)
            /\ Pack(mono_img, width, height).ok
            /\ buffer = Pack(mono_img, width, height).buf]_vars
    /\ [][(loopStarted /\ panel' # panel) =>
            /\ pc = "display"
            /\ ~displayed /\ displayed'
            /\ panel' = PanelShows(buffer)]_vars

C17_Witness ==
    /\ pc = "pace"
    /\ displayed
    /\ Len(buffer) = 2
    /\ panel = PanelShows(buffer)

(* C18: the self-test buffer has the length of the steady-state packed
   buffer of the same panel, and of its n bytes those at index < floor(n/2)
   are 0x00 and those at index >= floor(n/2) are 0xFF. *)
C18_SelfTestPattern ==
    /\ (pc = "idle" /\ ~loopStarted) =>
          LET n == Len(panel.buf)
          IN /\ panel.content = "buffer"
             /\ n = (width * height) \div 8
             /\ \A k \in 0..(n - 1) :
                   /\ k < n \div 2 => panel.buf[k + 1] = 0
                   /\ k >= n \div 2 => panel.buf[k + 1] = 255
    /\ pc \in {"display", "pace"} => Len(buffer) = Len(TestPattern(width, height))

C18_Witness ==
    /\ pc = "idle"
    /\ ~loopStarted
    /\ panel.buf = <<0, 255>>

(* C19: whenever a directive request follows an iteration, the loop has
   slept at least once and at least 1 time unit since that iteration's
   request: either 60, or max(refresh_rate, 1) for the integer refresh_rate
   of the directive. *)
C19_AlwaysPaced ==
    [][(FetchStep /\ loopStarted) =>
            /\ sleeps >= 1
            /\ slept >= 1
            /\ \/ slept = BACKOFF
               \/ /\ refresh_rate.kind = "int"
                  /\ slept = Max(refresh_rate.val, 1)]_vars

C19_Witness ==
    /\ pc = "idle"
    /\ displayed
    /\ response.refresh_rate = RefreshInt(0)
    /\ slept = 1

(* C15: with no interrupt and every blocking call returning, a directive
   request is issued infinitely often once the loop has started: every call
   of process_image comes back to the loop head, and from the loop head the
   next directive request is issued. *)
C15_FetchesForever ==
    /\ (loopStarted /\ pc # "idle") ~> (pc = "idle")
    /\ (pc = "idle") ~> (directiveReqs = 1)

====
